---------------------------- MODULE Spec2Model ----------------------------
(***************************************************************************)
(* Model of the two QuantConnect strategies of the repository:             *)
(*   SpyStraddleCloseToOpen (SpyStraddleClose2Open.py) and                 *)
(*   SpyEndOfDayPump        (SpyLast15Minutes.py).                         *)
(*                                                                         *)
(* Units.  Every price and every amount of money is an integer number of   *)
(* cents (100000.00 is 10000000).  The Python code computes in binary      *)
(* floating point; the model computes in exact decimal arithmetic, and the *)
(* one place where the code rounds on purpose ("{:.2f}".format) is         *)
(* modelled as rounding a half cent either way (parameter up).             *)
(*                                                                         *)
(* An unhandled Python exception in a handler ends the backtest with a     *)
(* runtime error: running becomes FALSE and no handler runs again.         *)
(***************************************************************************)
EXTENDS Integers, Sequences, FiniteSets

VARIABLES
    \* ---- SpyStraddleCloseToOpen: fields of self ----
    money, holding, option_qty, share_qty, fees, expiry, strike,
    spy_price_invested, option_buy_price, option_cost_basis,
    share_buy_price, share_cost_basis, option_total_profit,
    share_total_profit, call_now, put_now, call_invested, put_invested,
    circuit_breaker,
    \* ---- the platform around it ----
    running,      \* FALSE once a handler has raised
    phase,        \* next scheduled handler of the trading day
    \* ---- history of the run (read by the properties only) ----
    last,         \* the last handler call: [op, out]
    slice,        \* the slice handed to the last OnData call
    buys,         \* number of BuyTheClose calls that opened a position
    cbToday,      \* the current trading day is one of cb_days
    calledOpen,   \* SellTheOpen called SellEverything today
    calledCb,     \* SellAfterCircuitBreaker called SellEverything today
    \* ---- SpyEndOfDayPump ----
    yest_price,   \* self.yest_price
    pump_qty,     \* Portfolio["SPY"].Quantity
    pump_cash,    \* the account's cash
    pump_moc,     \* quantity of the pending market-on-close order
    pump_phase,   \* "buy": before BuyEodPump, "close": before the close
    pump_bought,  \* BuyEodPump bought on the last day it ran
    pump_day      \* trading days completed

straddleVars == <<money, holding, option_qty, share_qty, fees, expiry, strike,
                  spy_price_invested, option_buy_price, option_cost_basis,
                  share_buy_price, share_cost_basis, option_total_profit,
                  share_total_profit, call_now, put_now, call_invested,
                  put_invested, circuit_breaker, running>>
schedVars == <<phase, cbToday, calledOpen, calledCb>>
histVars == <<last, slice, buys>>
pumpVars == <<yest_price, pump_qty, pump_cash, pump_moc, pump_phase,
              pump_bought, pump_day>>
vars == <<straddleVars, schedVars, histVars, pumpVars>>

----------------------------------------------------------------------------
(* Program constants of SpyStraddleCloseToOpen.Initialize (cents).         *)

StartMoney == 10000000
strike_offset == -300
option_buy_offset == 0
option_sell_offset == 2
\* option_portion = share_portion = 0.5, as a percentage
option_portion == 50
share_portion == 50
\* the flat 20.00 charged per straddle purchase
Fee == 2000
\* one option contract is 100 shares
Multiplier == 100
\* "Give it seven tries": range(7)
Tries == 7
\* the symbol of the option chain the algorithm subscribed to
symbol == "SPY"

----------------------------------------------------------------------------
(* Python helpers.                                                          *)

Abs(x) == IF x < 0 THEN -x ELSE x

\* int(a / b) for b > 0: truncation toward zero
Trunc(a, b) == IF a >= 0 THEN a \div b ELSE -((-a) \div b)

\* sorted(seq, key): Python's sort is stable.  key is the sequence of the
\* keys of seq's elements.  Order(key, n) is the order of the first n
\* positions: position n goes behind every earlier one whose key is not
\* larger.
RECURSIVE Order(_, _)
Order(key, n) ==
    IF n = 0 THEN <<>>
    ELSE LET o == Order(key, n - 1)
             k == Cardinality({r \in DOMAIN o : key[o[r]] <= key[n]})
         IN  SubSeq(o, 1, k) \o <<n>> \o SubSeq(o, k + 1, Len(o))

Sorted(seq, key) ==
    LET o == Order(key, Len(seq)) IN [r \in DOMAIN seq |-> seq[o[r]]]

\* re.search(r"\|", s) on a string given as its sequence of characters
HasBar(s) == \E i \in DOMAIN s : s[i] = "|"

Truthy(c) == c # <<>>

----------------------------------------------------------------------------
(* OnData.  A contract is a record [Right, Strike, Expiry, BidPrice,       *)
(* AskPrice, Symbol, UnderlyingLastPrice]; call_now, put_now, call_invested *)
(* and put_invested hold <<>> (the empty dict {}) or <<contract>>.          *)

Calls(chain) == SelectSeq(chain.Contracts, LAMBDA x : x.Right = 0)
Puts(chain) == SelectSeq(chain.Contracts, LAMBDA x : x.Right = 1)

\* key of the first sort: distance of the strike from offset-ATM
StrikeKey(chain, x) == Abs(chain.Underlying + strike_offset - x.Strike)

\* the second sort without reverse = True: earliest expiry first
ExpiryKey_Ascending(x) == x.Expiry

\* key of the second sort (reverse = True keeps the order of equal keys)
ExpiryKey(x) == -x.Expiry

Ranked(chain, cs) ==
    LET byStrike == Sorted(cs, [i \in DOMAIN cs |-> StrikeKey(chain, cs[i])])
    IN  Sorted(byStrike, [i \in DOMAIN byStrike |-> ExpiryKey(byStrike[i])])

\* the seven tries: "found" with the index, "empty", or "error" (IndexError
\* of cctrcts[j] / pctrcts[j]).  A contract object is always truthy, so the
\* else branch of "if cctrcts[j] and pctrcts[j]" is never taken.
RECURSIVE SevenTries(_, _, _)
SevenTries(cctrcts, pctrcts, j) ==
    IF j >= Tries THEN [res |-> "empty", j |-> j]
    ELSE IF j + 1 > Len(cctrcts) \/ j + 1 > Len(pctrcts)
         THEN [res |-> "error", j |-> j]
    ELSE IF ~HasBar(cctrcts[j + 1].Symbol \o pctrcts[j + 1].Symbol)
         THEN [res |-> "found", j |-> j]
    ELSE SevenTries(cctrcts, pctrcts, j + 1)

Pick(cctrcts, pctrcts) ==
    IF Truthy(pctrcts) /\ Truthy(cctrcts)
    THEN SevenTries(cctrcts, pctrcts, 0)
    ELSE [res |-> "empty", j |-> 0]

Matches(cs, e, k) == SelectSeq(cs, LAMBDA x : x.Expiry = e /\ x.Strike = k)

\* lines 173-203 for one chain, given its ranked contracts and the outcome
\* of the seven tries, on st = [cn, pn, ci, pi, ok]
Store(st, chain, cctrcts, pctrcts, pick) ==
    LET call_match == Matches(Calls(chain), expiry, strike)
        put_match == Matches(Puts(chain), expiry, strike)
        cn == IF pick.res = "found" THEN <<cctrcts[pick.j + 1]>> ELSE <<>>
        pn == IF pick.res = "found" THEN <<pctrcts[pick.j + 1]>> ELSE <<>>
    IN  IF pick.res = "error" THEN [st EXCEPT !.ok = FALSE]
        ELSE IF option_qty > 0
             THEN IF Truthy(call_match) /\ Truthy(put_match)
                  THEN [cn |-> cn, pn |-> pn, ci |-> <<call_match[1]>>,
                        pi |-> <<put_match[1]>>, ok |-> TRUE]
                  ELSE [cn |-> cn, pn |-> pn, ci |-> <<>>, pi |-> <<>>,
                        ok |-> TRUE]
             ELSE [cn |-> cn, pn |-> pn, ci |-> st.ci, pi |-> st.pi,
                   ok |-> TRUE]

\* the body of the loop for one chain
OnChain(st, chain) ==
    CHOOSE r \in {Store(st, chain, cctrcts, pctrcts, Pick(cctrcts, pctrcts)) :
                    cctrcts \in {Ranked(chain, Calls(chain))},
                    pctrcts \in {Ranked(chain, Puts(chain))}} : TRUE

\* for i in slice.OptionChains: if i.Key != self.symbol: continue
RECURSIVE OnChains(_, _, _)
OnChains(st, sl, i) ==
    IF i > Len(sl) \/ ~st.ok THEN st
    ELSE IF sl[i].Key # symbol THEN OnChains(st, sl, i + 1)
    ELSE OnChains(OnChain(st, sl[i].Value), sl, i + 1)

OnData(sl) ==
    /\ running
    /\ \E st \in {OnChains([cn |-> call_now, pn |-> put_now,
                            ci |-> call_invested, pi |-> put_invested,
                            ok |-> TRUE], sl, 1)} :
        /\ call_now' = st.cn
        /\ put_now' = st.pn
        /\ call_invested' = st.ci
        /\ put_invested' = st.pi
        /\ running' = st.ok
        /\ last' = [op |-> "OnData", out |-> IF st.ok THEN "ok" ELSE "error"]
        /\ slice' = sl
        /\ UNCHANGED <<money, holding, option_qty, share_qty, fees, expiry,
                       strike, spy_price_invested, option_buy_price,
                       option_cost_basis, share_buy_price, share_cost_basis,
                       option_total_profit, share_total_profit,
                       circuit_breaker, buys>>

----------------------------------------------------------------------------
(* GetStraddleMidPrice.  straddle_rough is a whole number of half cents;   *)
(* "{:.2f}".format rounds it to cents, a half cent going up or down with   *)
(* the binary value of the float (up).                                      *)

FormatCents(halfCents, up) ==
    IF halfCents % 2 = 0 THEN halfCents \div 2
    ELSE (halfCents \div 2) + (IF up THEN 1 ELSE 0)

\* the price of a market order (v0.1): the combined ask
GetStraddleMidPrice_Ask(call, put, up) == call.AskPrice + put.AskPrice

GetStraddleMidPrice(call, put, up) ==
    LET straddle_ask == call.AskPrice + put.AskPrice
        straddle_bid == call.BidPrice + put.BidPrice
    IN  FormatCents(straddle_ask + straddle_bid, up)

----------------------------------------------------------------------------
(* BuyTheClose.  ask is Securities[spy].AskPrice.                          *)

\* int((option_money - 20.00) / (option_buy_price * 100))
OptionQty(m, p) ==
    Trunc(m * option_portion - Fee * 100, p * Multiplier * 100)

\* (option_qty * option_buy_price * 100) + 20.00
OptionCostBasis(q, p) == q * p * Multiplier + Fee

\* int(share_money / share_buy_price)
ShareQty(m, a) == Trunc(m * share_portion, a * 100)

ShareCostBasis(q, a) == q * a

\* buy_shares left True when the options were skipped
BuySharesAfterSkip_Still == TRUE

\* buy_shares after the else branch: "If we don't buy options, don't buy
\* shares either"
BuySharesAfterSkip == FALSE

\* lines 226-262: the option block, on the record b of the fields the
\* handler writes; err marks a ZeroDivisionError
BuyOptions(b, up) ==
    IF ~(option_portion > 0) THEN b
    ELSE IF Truthy(call_now) /\ Truthy(put_now)
    THEN LET price == GetStraddleMidPrice(call_now[1], put_now[1], up)
                          + option_buy_offset
             b1 == [b EXCEPT !.expiry = call_now[1].Expiry,
                             !.strike = call_now[1].Strike,
                             !.spy_price_invested =
                                 call_now[1].UnderlyingLastPrice,
                             !.option_buy_price = price]
         IN  IF price * Multiplier = 0 THEN [b1 EXCEPT !.err = TRUE]
             ELSE [b1 EXCEPT
                     !.option_qty = OptionQty(money, price),
                     !.option_cost_basis =
                         OptionCostBasis(OptionQty(money, price), price),
                     !.fees = b.fees + Fee,
                     !.call_invested = call_now,
                     !.put_invested = put_now,
                     !.holding = TRUE]
    ELSE [b EXCEPT !.buy_shares = BuySharesAfterSkip]

\* lines 264-272: the share block
BuyTheShares(b, ask) ==
    IF b.err \/ ~(share_portion > 0 /\ b.buy_shares) THEN b
    ELSE IF ask = 0
    THEN [b EXCEPT !.share_buy_price = ask, !.err = TRUE]
    ELSE [b EXCEPT !.share_buy_price = ask,
                   !.share_qty = ShareQty(money, ask),
                   !.share_cost_basis =
                       ShareCostBasis(ShareQty(money, ask), ask),
                   !.holding = TRUE]

\* lines 274-275
PayForIt(b) ==
    IF b.err \/ ~b.holding THEN b
    ELSE [b EXCEPT !.money = b.money - b.option_cost_basis
                                     - b.share_cost_basis]

BuyTheClose(ask, up) ==
    LET b0 == [expiry |-> expiry, strike |-> strike,
               spy_price_invested |-> spy_price_invested,
               option_buy_price |-> option_buy_price,
               option_qty |-> option_qty,
               option_cost_basis |-> option_cost_basis, fees |-> fees,
               call_invested |-> call_invested,
               put_invested |-> put_invested, holding |-> holding,
               share_buy_price |-> share_buy_price, share_qty |-> share_qty,
               share_cost_basis |-> share_cost_basis, money |-> money,
               buy_shares |-> TRUE, err |-> FALSE]
        b == IF holding THEN b0
             ELSE PayForIt(BuyTheShares(BuyOptions(b0, up), ask))
    IN  /\ running
        /\ expiry' = b.expiry
        /\ strike' = b.strike
        /\ spy_price_invested' = b.spy_price_invested
        /\ option_buy_price' = b.option_buy_price
        /\ option_qty' = b.option_qty
        /\ option_cost_basis' = b.option_cost_basis
        /\ fees' = b.fees
        /\ call_invested' = b.call_invested
        /\ put_invested' = b.put_invested
        /\ holding' = b.holding
        /\ share_buy_price' = b.share_buy_price
        /\ share_qty' = b.share_qty
        /\ share_cost_basis' = b.share_cost_basis
        /\ money' = b.money
        /\ running' = ~b.err
        /\ buys' = IF ~holding /\ b.holding /\ ~b.err THEN buys + 1 ELSE buys
        /\ last' = [op |-> "BuyTheClose",
                    out |-> IF holding THEN "noop"
                            ELSE IF b.err THEN "error"
                            ELSE IF b.holding THEN "buy" ELSE "skip"]
        /\ UNCHANGED <<call_now, put_now, circuit_breaker,
                       option_total_profit, share_total_profit, slice>>

----------------------------------------------------------------------------
(* SellEverything.  bid is Securities[spy].BidPrice.  The percentages are  *)
(* only printed, but their divisions can raise.                             *)

\* without the fallback to cost: an unmatched straddle closes at nothing
OptionSellPrice_NoFallback ==
    IF Truthy(call_invested) /\ Truthy(put_invested)
    THEN call_invested[1].BidPrice + put_invested[1].BidPrice
             + option_sell_offset
    ELSE 0

\* lines 286-293: the closing price of the straddle
OptionSellPrice ==
    IF Truthy(call_invested) /\ Truthy(put_invested)
    THEN call_invested[1].BidPrice + put_invested[1].BidPrice
             + option_sell_offset
    ELSE option_buy_price

\* self.holding = False (line 323)
HoldingAfterSell == FALSE

\* on e = [money, option_total_profit, share_total_profit, option_qty,
\* share_qty, err]
SellOptions(e) ==
    IF ~(option_qty > 0) THEN e
    ELSE LET option_credit == OptionSellPrice * option_qty * Multiplier
             option_profit == option_credit - option_cost_basis
         IN  IF option_cost_basis = 0 THEN [e EXCEPT !.err = TRUE]
             ELSE [e EXCEPT
                     !.option_total_profit = e.option_total_profit
                                                 + option_profit,
                     !.money = e.money + option_credit,
                     !.option_qty = 0]

SellShares(e, bid) ==
    IF e.err \/ ~(share_qty > 0) THEN e
    ELSE LET share_credit == share_qty * bid
             share_profit == share_credit - share_cost_basis
         IN  IF share_cost_basis = 0 THEN [e EXCEPT !.err = TRUE]
             ELSE [e EXCEPT
                     !.share_total_profit = e.share_total_profit
                                                + share_profit,
                     !.money = e.money + share_credit,
                     !.share_qty = 0]

\* line 319: day_pct divides by the two cost bases
DayPct(e) ==
    IF e.err THEN e
    ELSE IF share_cost_basis + option_cost_basis = 0
    THEN [e EXCEPT !.err = TRUE]
    ELSE e

\* assigns every field SellEverything may write
SellEverything(bid) ==
    LET e0 == [money |-> money, option_total_profit |-> option_total_profit,
               share_total_profit |-> share_total_profit,
               option_qty |-> option_qty, share_qty |-> share_qty,
               err |-> FALSE]
        e == IF holding THEN DayPct(SellShares(SellOptions(e0), bid)) ELSE e0
    IN  /\ money' = e.money
        /\ option_total_profit' = e.option_total_profit
        /\ share_total_profit' = e.share_total_profit
        /\ option_qty' = e.option_qty
        /\ share_qty' = e.share_qty
        /\ running' = ~e.err
        /\ holding' = IF holding /\ ~e.err THEN HoldingAfterSell ELSE holding
        /\ option_cost_basis' =
               IF holding /\ ~e.err THEN 0 ELSE option_cost_basis
        /\ share_cost_basis' =
               IF holding /\ ~e.err THEN 0 ELSE share_cost_basis

NoSell ==
    UNCHANGED <<money, option_total_profit, share_total_profit, option_qty,
                share_qty, running, holding, option_cost_basis,
                share_cost_basis>>

SellOut(called) ==
    IF ~called THEN "deferred"
    ELSE IF ~holding THEN "flat"
    ELSE IF running' THEN "sold" ELSE "error"

----------------------------------------------------------------------------
(* SellTheOpen and SellAfterCircuitBreaker.  isCb: str(self.Time) matches  *)
(* one of cb_days.                                                          *)

\* lines 330-332
CircuitBreakerAtOpen(cb, isCb) == cb \/ isCb

\* line 335
SellsAtOpen(cb) == ~cb

\* the later handler never sells
SellsAfterCircuitBreaker_Never(cb) == FALSE

\* line 340
SellsAfterCircuitBreaker(cb) == cb

\* circuit_breaker left set by SellAfterCircuitBreaker
CircuitBreakerAfterReset_Kept == TRUE

\* line 341
CircuitBreakerAfterReset == FALSE

SellTheOpen(isCb, bid) ==
    /\ running
    /\ circuit_breaker' = CircuitBreakerAtOpen(circuit_breaker, isCb)
    /\ IF SellsAtOpen(circuit_breaker') THEN SellEverything(bid) ELSE NoSell
    /\ last' = [op |-> "SellTheOpen",
                out |-> SellOut(SellsAtOpen(circuit_breaker'))]
    /\ UNCHANGED <<fees, expiry, strike, spy_price_invested,
                   option_buy_price, share_buy_price, call_now, put_now,
                   call_invested, put_invested, slice, buys>>

SellAfterCircuitBreaker(bid) ==
    /\ running
    /\ IF SellsAfterCircuitBreaker(circuit_breaker)
       THEN /\ circuit_breaker' = CircuitBreakerAfterReset
            /\ SellEverything(bid)
       ELSE /\ circuit_breaker' = circuit_breaker
            /\ NoSell
    /\ last' = [op |-> "SellAfterCircuitBreaker",
                out |-> SellOut(SellsAfterCircuitBreaker(circuit_breaker))]
    /\ UNCHANGED <<fees, expiry, strike, spy_price_invested,
                   option_buy_price, share_buy_price, call_now, put_now,
                   call_invested, put_invested, slice, buys>>

----------------------------------------------------------------------------
(* Inputs: the data the platform hands to the handlers.                     *)

\* bounds of the model
MaxBuys == 2
MaxPerSide == 8
MaxPumpDays == 3

GoodSymbol == <<"S", "P", "Y">>
BadSymbol == <<"S", "P", "Y", "|", "S", "P", "Y">>

Contract(right, k, e, bid, ask, sym, und) ==
    [Right |-> right, Strike |-> k, Expiry |-> e, BidPrice |-> bid,
     AskPrice |-> ask, Symbol |-> sym, UnderlyingLastPrice |-> und]

SpySlice(und, contracts) ==
    <<[Key |-> symbol, Value |-> [Underlying |-> und, Contracts |-> contracts]]>>

\* -- trading runs: one strike pair per chain, three kinds of quotes --
TradeUnderlyings == {30000}
TradeExpiries == {60}
TradeStrikes == {29700, 29800}
\* <<call bid, call ask, put bid, put ask>>: a normal market, and a market
\* with no bid and a far ask
TradeQuotes == {<<1240, 1260, 1250, 1255>>, <<0, 49980, 0, 49980>>}

\* no chain in the slice, a chain without contracts, or one call and one
\* put of the same strike and expiry
TradeSlices ==
    {<<>>} \cup
    {SpySlice(und, <<>>) : und \in TradeUnderlyings} \cup
    {SpySlice(und, <<Contract(0, k, e, q[1], q[2], GoodSymbol, und),
                     Contract(1, k, e, q[3], q[4], GoodSymbol, und)>>) :
        und \in TradeUnderlyings, e \in TradeExpiries, k \in TradeStrikes,
        q \in TradeQuotes}

ShareAsks == {0, 50000}
ShareBids == {1, 49990}

\* -- ranking runs: chains of up to MaxPerSide calls and puts --
\* offset-ATM is the third strike, or half way between the fourth and the
\* fifth
RankUnderlyings == {30000, 30150}
RankStrike(i) == 29500 + 100 * (i - 1)
RankExpiry(pat, i) == IF pat = 1 /\ i % 2 = 0 THEN 90 ELSE 60
RankSymbol(kb, i) == IF i <= kb THEN BadSymbol ELSE GoodSymbol

RankSide(right, n, pat, kb, und) ==
    [i \in 1..n |-> Contract(right, RankStrike(i), RankExpiry(pat, i),
                             1000 + i, 1010 + i, RankSymbol(kb, i), und)]

RankSlices ==
    {<<>>, <<[Key |-> "QQQ", Value |-> [Underlying |-> 30000,
                                        Contracts |-> <<>>]]>>} \cup
    UNION {{SpySlice(und, RankSide(0, nc, pat, kb, und)
                              \o RankSide(1, np, pat, kb, und)) :
               np \in {0, 1, nc}, pat \in {0, 1}, kb \in 0..MaxPerSide,
               und \in RankUnderlyings} : nc \in 0..MaxPerSide}

\* -- midpoint runs: every pair of leg quotes over a few prices --
MidPrices == {0, 1, 2, 1250}
MidContracts(right) ==
    {Contract(right, k, e, bid, ask, GoodSymbol, und) :
        und \in TradeUnderlyings, e \in TradeExpiries, k \in {29700},
        bid \in MidPrices, ask \in MidPrices}

----------------------------------------------------------------------------
(* Specifications of SpyStraddleCloseToOpen.                                *)

\* option_cost_basis and share_cost_basis are not set by Initialize; they
\* are read only after BuyTheClose has set them, and 0 stands for "not set".
InitStraddle ==
    /\ money = StartMoney
    /\ holding = FALSE
    /\ option_qty = 0
    /\ share_qty = 0
    /\ fees = 0
    /\ expiry = 0
    /\ strike = 0
    /\ spy_price_invested = 0
    /\ option_buy_price = 0
    /\ option_cost_basis = 0
    /\ share_buy_price = 0
    /\ share_cost_basis = 0
    /\ option_total_profit = 0
    /\ share_total_profit = 0
    /\ call_now = <<>>
    /\ put_now = <<>>
    /\ call_invested = <<>>
    /\ put_invested = <<>>
    /\ circuit_breaker = FALSE
    /\ running = TRUE

InitSched ==
    /\ phase = "open"
    /\ cbToday = FALSE
    /\ calledOpen = FALSE
    /\ calledCb = FALSE

InitHist ==
    /\ last = [op |-> "Initialize", out |-> "ok"]
    /\ slice = <<>>
    /\ buys = 0

InitPump ==
    /\ yest_price = 10000
    /\ pump_qty = 0
    /\ pump_cash = 10000000
    /\ pump_moc = 0
    /\ pump_phase = "buy"
    /\ pump_bought = FALSE
    /\ pump_day = 0

Init == InitStraddle /\ InitSched /\ InitHist /\ InitPump

\* -- any sequence of handler calls --
DoOnData ==
    \E sl \in TradeSlices : OnData(sl) /\ UNCHANGED <<schedVars, pumpVars>>

DoBuyTheClose ==
    /\ buys < MaxBuys
    /\ \E ask \in ShareAsks, up \in BOOLEAN : BuyTheClose(ask, up)
    /\ UNCHANGED <<schedVars, pumpVars>>

DoSellTheOpen ==
    /\ \E isCb \in BOOLEAN, bid \in ShareBids : SellTheOpen(isCb, bid)
    /\ UNCHANGED <<schedVars, pumpVars>>

DoSellAfterCircuitBreaker ==
    /\ \E bid \in ShareBids : SellAfterCircuitBreaker(bid)
    /\ UNCHANGED <<schedVars, pumpVars>>

Next ==
    \/ DoOnData
    \/ DoBuyTheClose
    \/ DoSellTheOpen
    \/ DoSellAfterCircuitBreaker

Spec == Init /\ [][Next]_vars

\* -- the schedule of Initialize: SellTheOpen 2 minutes after the open,
\*    SellAfterCircuitBreaker 30 minutes after it, BuyTheClose 10 minutes
\*    before the close; OnData at any minute --
SchedOnData ==
    \E sl \in TradeSlices : OnData(sl) /\ UNCHANGED <<schedVars, pumpVars>>

SchedSellTheOpen ==
    /\ phase = "open"
    /\ \E isCb \in BOOLEAN, bid \in ShareBids :
          SellTheOpen(isCb, bid) /\ cbToday' = isCb
    /\ calledOpen' = (last'.out # "deferred")
    /\ calledCb' = FALSE
    /\ phase' = "cb"
    /\ UNCHANGED pumpVars

SchedSellAfterCircuitBreaker ==
    /\ phase = "cb"
    /\ \E bid \in ShareBids : SellAfterCircuitBreaker(bid)
    /\ calledCb' = (last'.out # "deferred")
    /\ phase' = "close"
    /\ UNCHANGED <<cbToday, calledOpen, pumpVars>>

SchedBuyTheClose ==
    /\ phase = "close"
    /\ buys < MaxBuys
    /\ \E ask \in ShareAsks, up \in BOOLEAN : BuyTheClose(ask, up)
    /\ phase' = "open"
    /\ UNCHANGED <<cbToday, calledOpen, calledCb, pumpVars>>

NextSched ==
    \/ SchedOnData
    \/ SchedSellTheOpen
    \/ SchedSellAfterCircuitBreaker
    \/ SchedBuyTheClose

SpecSched == Init /\ [][NextSched]_vars

\* -- OnData alone, over the ranking chains --
RankOnData ==
    \E sl \in RankSlices : OnData(sl) /\ UNCHANGED <<schedVars, pumpVars>>

NextRank == RankOnData

SpecRank == Init /\ [][NextRank]_vars

\* -- BuyTheClose on every pair of leg quotes OnData can have stored --
InitMid ==
    /\ InitSched /\ InitHist /\ InitPump
    /\ money = StartMoney
    /\ holding = FALSE
    /\ option_qty = 0
    /\ share_qty = 0
    /\ fees = 0
    /\ expiry = 0
    /\ strike = 0
    /\ spy_price_invested = 0
    /\ option_buy_price = 0
    /\ option_cost_basis = 0
    /\ share_buy_price = 0
    /\ share_cost_basis = 0
    /\ option_total_profit = 0
    /\ share_total_profit = 0
    /\ \E c \in MidContracts(0), p \in MidContracts(1) :
          call_now = <<c>> /\ put_now = <<p>>
    /\ call_invested = <<>>
    /\ put_invested = <<>>
    /\ circuit_breaker = FALSE
    /\ running = TRUE

MidBuyTheClose ==
    /\ \E ask \in ShareAsks, up \in BOOLEAN : BuyTheClose(ask, up)
    /\ UNCHANGED <<schedVars, pumpVars>>

NextMid == MidBuyTheClose

SpecMid == InitMid /\ [][NextMid]_vars

----------------------------------------------------------------------------
(* SpyEndOfDayPump.  The platform's part is modelled from its API: an      *)
(* order quantity is signed (positive buys, negative sells), SetHoldings   *)
(* trades at once to the target weight, and a market-on-close order is     *)
(* filled at the close unless the platform rejects it (accepted).          *)

PumpPrices == {9000, 10000, 11000}

\* self.Securities["SPY"].Last > (self.yest_price * 0.97)
PumpSignal(px, yest) == px * 100 > yest * 97

\* SetHoldings("SPY", 1.0): the whole account value in shares
SetHoldingsQty(cash, qty, px) ==
    IF cash + qty * px > 0 THEN (cash + qty * px) \div px ELSE 0

\* self.MarketOnCloseOrder("SPY", qty): the quantity submitted
MocOrderQuantity(qty) == qty

BuyEodPump(px) ==
    /\ pump_phase = "buy"
    /\ pump_day < MaxPumpDays
    /\ IF PumpSignal(px, yest_price)
       THEN /\ pump_qty' = SetHoldingsQty(pump_cash, pump_qty, px)
            /\ pump_cash' = pump_cash + (pump_qty - pump_qty') * px
            /\ pump_moc' = MocOrderQuantity(pump_qty')
            /\ pump_bought' = TRUE
       ELSE /\ UNCHANGED <<pump_qty, pump_cash, pump_moc>>
            /\ pump_bought' = FALSE
    /\ yest_price' = px
    /\ pump_phase' = "close"
    /\ UNCHANGED pump_day

\* the close of the trading day: the pending order is filled or dropped
MarketClose(px, accepted) ==
    /\ pump_phase = "close"
    /\ pump_qty' = IF accepted THEN pump_qty + pump_moc ELSE pump_qty
    /\ pump_cash' = IF accepted THEN pump_cash - pump_moc * px ELSE pump_cash
    /\ pump_moc' = 0
    /\ pump_phase' = "buy"
    /\ pump_day' = pump_day + 1
    /\ UNCHANGED <<yest_price, pump_bought>>

PumpBuy ==
    /\ \E px \in PumpPrices : BuyEodPump(px)
    /\ UNCHANGED <<straddleVars, schedVars, histVars>>

PumpClose ==
    /\ \E px \in PumpPrices, accepted \in BOOLEAN : MarketClose(px, accepted)
    /\ UNCHANGED <<straddleVars, schedVars, histVars>>

NextPump == PumpBuy \/ PumpClose

SpecPump == Init /\ [][NextPump]_vars

----------------------------------------------------------------------------
(* Properties.                                                              *)

Elems(seq) == {seq[i] : i \in DOMAIN seq}

\* the last handler call was OnData on a slice holding the SPY chain
SawChain ==
    last.op = "OnData" /\ Len(slice) = 1 /\ slice[1].Key = symbol

\* x is a contract of side with the latest expiry of pool and, among the
\* contracts of side with that expiry, a strike closest to offset-ATM
IsBest(x, side, pool, chain) ==
    /\ x \in side
    /\ \A y \in pool : y.Expiry <= x.Expiry
    /\ \A y \in side :
          y.Expiry = x.Expiry => StrikeKey(chain, x) <= StrikeKey(chain, y)

Usable(c, p) == ~HasBar(c.Symbol \o p.Symbol)

\* C1 (SpecSched): under the scheduled order of the handlers, holding is
\* False every time BuyTheClose starts.
C1_FlatAtBuyTheClose == (running /\ phase = "close") => ~holding

\* a position opened by an earlier BuyTheClose has been closed, on a
\* circuit-breaker day, when BuyTheClose is about to start
C1_Witness ==
    /\ running /\ phase = "close" /\ ~holding
    /\ buys >= 1 /\ cbToday
    /\ last = [op |-> "SellAfterCircuitBreaker", out |-> "sold"]

\* C2 (SpecSched): on a day of cb_days SellTheOpen does not call
\* SellEverything and SellAfterCircuitBreaker does; on any other day
\* SellTheOpen does and SellAfterCircuitBreaker does not; circuit_breaker is
\* False when BuyTheClose starts.
C2_OneSalePerDay ==
    (running /\ phase = "close") =>
        /\ ~circuit_breaker
        /\ cbToday => (~calledOpen /\ calledCb)
        /\ ~cbToday => (calledOpen /\ ~calledCb)

C2_Witness ==
    /\ running /\ phase = "close" /\ cbToday /\ calledCb /\ ~calledOpen
    /\ buys >= 1 /\ ~circuit_breaker

\* C3 as stated: the first-ranked call (put) has the latest expiry of the
\* chain and, among the calls (puts) of that expiry, a closest strike; when
\* both first-ranked contracts are usable they are call_now and put_now.
C3_FirstRankedOfChain ==
    (SawChain /\ running) =>
        LET chain == slice[1].Value
            cctrcts == Ranked(chain, Calls(chain))
            pctrcts == Ranked(chain, Puts(chain))
            all == Elems(chain.Contracts)
        IN  /\ Truthy(cctrcts) =>
                  IsBest(cctrcts[1], Elems(Calls(chain)), all, chain)
            /\ Truthy(pctrcts) =>
                  IsBest(pctrcts[1], Elems(Puts(chain)), all, chain)
            /\ (Truthy(cctrcts) /\ Truthy(pctrcts)
                    /\ Usable(cctrcts[1], pctrcts[1])) =>
                  (call_now = <<cctrcts[1]>> /\ put_now = <<pctrcts[1]>>)

\* C3 as amended: the first-ranked call has the latest expiry among the
\* calls of the chain and, among the calls of that expiry, a closest
\* strike; the same for the first-ranked put among the puts; when both
\* first-ranked contracts are usable they are call_now and put_now.
C3_FirstRankedOfSide ==
    (SawChain /\ running) =>
        LET chain == slice[1].Value
            cctrcts == Ranked(chain, Calls(chain))
            pctrcts == Ranked(chain, Puts(chain))
        IN  /\ Truthy(cctrcts) =>
                  IsBest(cctrcts[1], Elems(Calls(chain)),
                         Elems(Calls(chain)), chain)
            /\ Truthy(pctrcts) =>
                  IsBest(pctrcts[1], Elems(Puts(chain)),
                         Elems(Puts(chain)), chain)
            /\ (Truthy(cctrcts) /\ Truthy(pctrcts)
                    /\ Usable(cctrcts[1], pctrcts[1])) =>
                  (call_now = <<cctrcts[1]>> /\ put_now = <<pctrcts[1]>>)

\* the stored call has the later expiry although a call of the earlier
\* expiry is closer to offset-ATM
C3_Witness ==
    /\ SawChain /\ running /\ Truthy(call_now) /\ Truthy(put_now)
    /\ \E y \in Elems(Calls(slice[1].Value)) :
          /\ y.Expiry < call_now[1].Expiry
          /\ StrikeKey(slice[1].Value, y)
                 < StrikeKey(slice[1].Value, call_now[1])

\* C4: for a chain with at least one call and one put, OnData ends with
\* call_now/put_now set to the first of the ranked pairs 0..6 whose symbols
\* hold no "|", or both empty when none of the examined pairs is usable.
C4_SevenTries ==
    (SawChain /\ Truthy(Calls(slice[1].Value))
              /\ Truthy(Puts(slice[1].Value))) =>
        LET chain == slice[1].Value
            cctrcts == Ranked(chain, Calls(chain))
            pctrcts == Ranked(chain, Puts(chain))
            good == {j \in 0..(Tries - 1) :
                        /\ j < Len(cctrcts) /\ j < Len(pctrcts)
                        /\ Usable(cctrcts[j + 1], pctrcts[j + 1])}
            first == CHOOSE j \in good : \A i \in good : j <= i
        IN  IF good # {}
            THEN call_now = <<cctrcts[first + 1]>>
                 /\ put_now = <<pctrcts[first + 1]>>
            ELSE call_now = <<>> /\ put_now = <<>>

\* C5 (Spec): a BuyTheClose call made while not holding with call_now or
\* put_now empty leaves money, holding, option_qty, share_qty, fees, strike
\* and expiry unchanged.
C5_SkipTheDay ==
    [][(last'.op = "BuyTheClose" /\ ~holding
            /\ (~Truthy(call_now) \/ ~Truthy(put_now)))
        => UNCHANGED <<money, holding, option_qty, share_qty, fees, strike,
                       expiry>>]_vars

\* BuyTheClose has skipped a day after an earlier position was closed
C5_Witness ==
    /\ last = [op |-> "BuyTheClose", out |-> "skip"]
    /\ ~Truthy(call_now) /\ ~holding /\ buys >= 1

\* C6 (Spec): a SellEverything that closes a position with option_qty > 0
\* credits money with option_qty * price * 100 (besides the shares), where
\* price is option_buy_price when call_invested or put_invested is empty,
\* the option profit recorded then being exactly -20.00, and call bid + put
\* bid + option_sell_offset of the invested contracts otherwise.
C6_UnmatchedFallback ==
    [][(last'.op \in {"SellTheOpen", "SellAfterCircuitBreaker"}
            /\ last'.out = "sold" /\ holding /\ option_qty > 0)
        => \E bid \in ShareBids :
              LET unmatched == ~Truthy(call_invested) \/ ~Truthy(put_invested)
                  price == IF unmatched THEN option_buy_price
                           ELSE call_invested[1].BidPrice
                                    + put_invested[1].BidPrice
                                    + option_sell_offset
                  share_credit == IF share_qty > 0 THEN share_qty * bid ELSE 0
              IN  /\ money' = money + option_qty * price * Multiplier
                                    + share_credit
                  /\ unmatched =>
                        option_total_profit' = option_total_profit - Fee]_vars

\* the first sale of the run closed the straddles at cost
C6_Witness ==
    /\ last.out = "sold" /\ ~holding /\ buys = 1
    /\ ~Truthy(call_invested) /\ option_total_profit = -Fee
    /\ option_buy_price > 0

\* C7: on every BuyTheClose that buys, option_cost_basis =
\* option_qty * option_buy_price * 100 + 20.00 is at most option_portion of
\* the money at the start of the call, share_cost_basis = share_qty *
\* share_buy_price is at most share_portion of it, and both quantities are
\* non-negative.
C7_PortionSplit ==
    [][(last'.op = "BuyTheClose" /\ last'.out = "buy")
        => /\ option_cost_basis' =
                  option_qty' * option_buy_price' * Multiplier + Fee
           /\ share_cost_basis' = share_qty' * share_buy_price'
           /\ option_cost_basis' * 100 <= option_portion * money
           /\ share_cost_basis' * 100 <= share_portion * money
           /\ option_qty' >= 0
           /\ share_qty' >= 0]_vars

\* C8 (SpecMid): BuyTheClose sets option_buy_price to option_buy_offset
\* plus the mean of the combined ask and the combined bid of call_now and
\* put_now rounded to cents; when bid <= ask on both legs that mean lies
\* between the combined bid and the combined ask.
C8_StraddleMid ==
    [][(last'.op = "BuyTheClose" /\ last'.out \in {"buy", "error"})
        => LET ask == call_now[1].AskPrice + put_now[1].AskPrice
               bid == call_now[1].BidPrice + put_now[1].BidPrice
               mid == option_buy_price' - option_buy_offset
           IN  /\ Abs(2 * mid - (ask + bid)) <= 1
               /\ (call_now[1].BidPrice <= call_now[1].AskPrice
                       /\ put_now[1].BidPrice <= put_now[1].AskPrice)
                     => (bid <= mid /\ mid <= ask)]_vars

\* a straddle was bought at a midpoint that needed rounding, strictly
\* inside the spread
C8_Witness ==
    /\ last = [op |-> "BuyTheClose", out |-> "buy"]
    /\ (call_now[1].AskPrice + put_now[1].AskPrice
            + call_now[1].BidPrice + put_now[1].BidPrice) % 2 = 1
    /\ call_now[1].BidPrice < call_now[1].AskPrice
    /\ put_now[1].BidPrice <= put_now[1].AskPrice
    /\ option_buy_price > call_now[1].BidPrice + put_now[1].BidPrice
    /\ option_buy_price < call_now[1].AskPrice + put_now[1].AskPrice

\* C9 (SpecPump): after the close of a day on which BuyEodPump bought, the
\* SPY quantity held is zero.
C9_FlatAfterClose == (pump_phase = "buy" /\ pump_bought) => pump_qty = 0

\* C10: whenever holding is False, money is the starting 100000.00 plus
\* option_total_profit plus share_total_profit.
C10_CashConservation ==
    ~holding => money = StartMoney + option_total_profit + share_total_profit

=============================================================================
